---- MODULE Spec2Model ----
(***************************************************************************)
(* Model of the Nemo listing dashboard (src/app.py): the cached loader and *)
(* normalizer load_and_preprocess_data, and the script main, which is      *)
(* re-executed as a whole on every user interaction: sidebar widgets,      *)
(* filter mask, KPI section and the columns the detail list reads.         *)
(*                                                                         *)
(* Numbers are kept in halves: the integer n stands for the float n/2, so  *)
(* that 2.5 is 5 and int() really truncates.  A text is the sequence of    *)
(* its characters.  A cell is a record [k, n, s]: k its kind, n its number *)
(* (when it has one), s its text (when it has one).                        *)
(***************************************************************************)
EXTENDS Integers, Sequences, FiniteSets, TLC

VARIABLES
    fs,        \* the two candidate paths of the source file and what they hold
    cache,     \* st.cache_data's entry for load_and_preprocess_data("sample_data.json")
    pc,        \* how the latest run of main ended: start, raised, nodata, shown
    df,        \* main's df: the table the loader returned in the latest run
    w,         \* the sidebar's widget values (session state)
    filtered,  \* filtered_df, as the positions of its rows in df, in order
    kpi,       \* what the KPI section rendered in the latest run
    steps,     \* number of user interactions so far in this session
    edits,     \* number of modifications of the source file so far
    first,     \* history: what the source file held when the cache was first filled
    fresh      \* history: TRUE when the files are as the latest run saw them

vars == <<fs, cache, pc, df, w, filtered, kpi, steps, edits, first, fresh>>

---------------------------------------------------------------------------
(* Bounds of the model *)

\* Longest array of records in the source file.
MaxRows == 2
\* Most user interactions in one session.
MaxSteps == 1
\* Most modifications of the source file in one behaviour.
MaxEdits == 2
\* A slider is dragged to one of its first MaxPick + 1 integers or to its last.
MaxPick == 2

---------------------------------------------------------------------------
(* Cells *)

NaN == [k |-> "nan", n |-> 0, s |-> <<>>]
Num(h) == [k |-> "num", n |-> h, s |-> <<>>]
Str(t) == [k |-> "str", n |-> 0, s |-> t]
\* JSON values that are none of the above once loaded
RawNull == [k |-> "null", n |-> 0, s |-> <<>>]
\* a JSON string that spells the number h/2, such as "2.5"
NumStr(h) == [k |-> "numstr", n |-> h, s |-> <<>>]
\* an ISO-8601 UTC timestamp "....Z", h hours after the model's epoch
IsoUtc(h) == [k |-> "iso", n |-> h, s |-> <<>>]
\* the text 'YYYY-MM-DD HH:MM:SS' of the instant h hours after the epoch
Stamp(h) == [k |-> "stamp", n |-> h, s |-> <<>>]

isna(v) == v.k \in {"nan", "null"}

\* int(x) of the float a/b, b > 0: truncation toward zero
Trunc(a, b) == IF a >= 0 THEN a \div b ELSE -((-a) \div b)

RECURSIVE SumSeq(_)
SumSeq(q) == IF q = <<>> THEN 0 ELSE Head(q) + SumSeq(Tail(q))

SetMin(S) == CHOOSE x \in S : \A y \in S : x <= y
SetMax(S) == CHOOSE x \in S : \A y \in S : x >= y

---------------------------------------------------------------------------
(* load_and_preprocess_data *)

filename == <<"sample_data.json">>

numeric_cols == {"monthlyRent", "deposit", "premium", "maintenanceFee", "size",
                 "floor", "groundFloor", "viewCount", "favoriteCount"}

\* the divisor of line 69, 3.3058 m2 per pyeong, times 10000
PyeongE4 == 33058

Absent == [exists |-> FALSE, isDict |-> FALSE, recs |-> <<>>]

\* for p in paths: if os.path.exists(p): file_path = p; break
FindFile(f) == IF f.root.exists THEN f.root
               ELSE IF f.nemo.exists THEN f.nemo
               ELSE Absent

\* pd.DataFrame([raw_data]) / pd.DataFrame(raw_data): the columns are the union of
\* the records' keys, and a key a record lacks is a missing cell in its row
Frame(recs) ==
    LET cols == UNION {DOMAIN recs[i] : i \in 1..Len(recs)}
    IN [cols |-> cols,
        rows |-> [i \in 1..Len(recs) |->
                    [c \in cols |-> IF c \in DOMAIN recs[i]
                                    THEN (IF recs[i][c].k = "null" THEN NaN ELSE recs[i][c])
                                    ELSE NaN]]]

\* pd.to_numeric(x, errors='coerce')
to_numeric(v) == IF v.k \in {"num", "numstr"} THEN Num(v.n) ELSE NaN

\* to_kst: a text that parses is shifted by 9 hours and re-formatted, anything
\* else is passed through
to_kst(v) == IF v.k = "iso" THEN Stamp(v.n + 9) ELSE v

fillna0(v) == IF isna(v) THEN 0 ELSE v.n

\* df['monthlyRent'].fillna(0) + df['maintenanceFee'].fillna(0)
\* (the sum without fillna: a missing operand makes it missing)
TotalCostNoFill(rent, fee) == IF isna(rent) \/ isna(fee) THEN NaN ELSE Num(rent.n + fee.n)
total_monthly_cost(rent, fee) == Num(fillna0(rent) + fillna0(fee))

\* df['size'] / 3.3058: the cell's n counts 1/(2 * 33058) pyeong
size_pyeong(size) == IF isna(size) THEN NaN
                     ELSE [k |-> "pyeong", n |-> size.n * 10000, s |-> <<>>]

EmptyTable == [cols |-> {}, rows |-> <<>>]

Coerced(t) ==
    [cols |-> t.cols,
     rows |-> [i \in 1..Len(t.rows) |->
                 [c \in t.cols |-> IF c \in numeric_cols
                                   THEN to_numeric(t.rows[i][c])
                                   ELSE t.rows[i][c]]]]

WithKst(t) ==
    IF "editedDateUtc" \in t.cols
    THEN [cols |-> t.cols \cup {"edited_kst"},
          rows |-> [i \in 1..Len(t.rows) |->
                      [c \in t.cols \cup {"edited_kst"} |->
                         IF c = "edited_kst" THEN to_kst(t.rows[i]["editedDateUtc"])
                         ELSE t.rows[i][c]]]]
    ELSE t

Derived == {"total_monthly_cost", "size_pyeong"}

WithDerived(t) ==
    [cols |-> t.cols \cup Derived,
     rows |-> [i \in 1..Len(t.rows) |->
                 [c \in t.cols \cup Derived |->
                    IF c = "total_monthly_cost"
                    THEN total_monthly_cost(t.rows[i]["monthlyRent"],
                                            t.rows[i]["maintenanceFee"])
                    ELSE IF c = "size_pyeong" THEN size_pyeong(t.rows[i]["size"])
                    ELSE t.rows[i][c]]]]

\* The body of load_and_preprocess_data on the files f: the table it returns, or
\* raised when a statement of it raises (df['monthlyRent'], df['maintenanceFee']
\* and df['size'] raise KeyError on a table without the column).
load_and_preprocess_data(f) ==
    LET file == FindFile(f)
        t == WithKst(Coerced(Frame(file.recs)))
    IN IF ~file.exists THEN [raised |-> FALSE, table |-> EmptyTable]
       ELSE IF ~({"monthlyRent", "maintenanceFee", "size"} \subseteq t.cols)
       THEN [raised |-> TRUE, table |-> EmptyTable]
       ELSE [raised |-> FALSE, table |-> WithDerived(t)]

\* @st.cache_data: the entry is keyed by the function and its argument, the
\* filename, which main never varies; the file's content is no part of the key
\* (no entry is ever reused)
CacheHitNever(c, name) == FALSE
CacheHit(c, name) == c.has /\ c.key = name

\* A call of the cached function: a hit returns the stored table; a miss runs the
\* body and stores what it returns (an exception stores nothing).
CachedLoad(c, f) ==
    IF CacheHit(c, filename)
    THEN [raised |-> FALSE, table |-> c.table, cache |-> c, built |-> FALSE]
    ELSE LET r == load_and_preprocess_data(f)
         IN IF r.raised
            THEN [raised |-> TRUE, table |-> EmptyTable, cache |-> c, built |-> FALSE]
            ELSE [raised |-> FALSE, table |-> r.table,
                  cache |-> [has |-> TRUE, key |-> filename, table |-> r.table],
                  built |-> TRUE]

---------------------------------------------------------------------------
(* main: the sidebar *)

\* the integer default of slider_filter when a column holds no value at all
SliderMaxDefault == 1000

\* the numbers of a column, missing cells left out (min, max, mean skip them)
Values(t, col) == {t.rows[i][col].n : i \in {j \in 1..Len(t.rows) : ~isna(t.rows[j][col])}}

\* sorted(df['businessMiddleCodeName'].dropna().unique())
all_cats(t) == {t.rows[i]["businessMiddleCodeName"].s :
                  i \in {j \in 1..Len(t.rows) : ~isna(t.rows[j]["businessMiddleCodeName"])}}

\* slider_filter: the slider runs over the integers min_v..max_v
min_v(t, col) == IF Values(t, col) = {} THEN 0 ELSE Trunc(SetMin(Values(t, col)), 2)
max_v(t, col) == IF Values(t, col) = {} THEN SliderMaxDefault
                 ELSE Trunc(SetMax(Values(t, col)), 2)

\* int(df['viewCount'].max() or 0), where the column holds a number
max_count(t, col) == Trunc(SetMax(Values(t, col)), 2)

RangeKeys == {"rent", "depo", "prem", "size_sl"}
RangeCol(key) == CASE key = "rent" -> "monthlyRent"
                   [] key = "depo" -> "deposit"
                   [] key = "prem" -> "premium"
                   [] key = "size_sl" -> "size"

\* The widgets' values before main has rendered them.
Unset == [set |-> FALSE, cats |-> {}, range |-> [key \in RangeKeys |-> <<0, 0>>],
          view |-> 0, fav |-> 0, subway |-> <<>>, title |-> <<>>,
          won |-> FALSE, pyeong |-> FALSE]

\* The values the widgets take when first rendered over the table t.
Defaults(t) == [set |-> TRUE, cats |-> all_cats(t),
                range |-> [key \in RangeKeys |->
                             <<min_v(t, RangeCol(key)), max_v(t, RangeCol(key))>>],
                view |-> 0, fav |-> 0, subway |-> <<>>, title |-> <<>>,
                won |-> FALSE, pyeong |-> FALSE]

\* the columns the sidebar reads: a table without one raises KeyError
SidebarCols == {"businessMiddleCodeName", "monthlyRent", "deposit", "premium", "size",
                "viewCount", "favoriteCount"}

\* int(NaN) raises ValueError: a count column with no number in it
SidebarRaises(t) ==
    \/ ~(SidebarCols \subseteq t.cols)
    \/ Values(t, "viewCount") = {}
    \/ Values(t, "favoriteCount") = {}

---------------------------------------------------------------------------
(* main: the filter mask *)

\* Series.isin(selected_cats)
\* (an empty selection read as no constraint)
IsInOrAll(v, sel) == sel = {} \/ (v.k = "str" /\ v.s \in sel)
isin(v, sel) == v.k = "str" /\ v.s \in sel

\* Series.between(lo, hi), both ends included; lo and hi are slider integers
\* (a missing value passing; the upper comparison turned round)
BetweenNaNPasses(v, lo, hi) == ~(v.k = "num" /\ v.n < 2 * lo) /\ ~(v.k = "num" /\ v.n > 2 * hi)
BetweenSwapped(v, lo, hi) == v.k = "num" /\ 2 * lo <= v.n /\ 2 * hi <= v.n
between(v, lo, hi) == v.k = "num" /\ 2 * lo <= v.n /\ v.n <= 2 * hi

\* df[col] >= threshold
at_least(v, thr) == v.k = "num" /\ v.n >= 2 * thr

Lower(ch) == CASE ch = "A" -> "a" [] ch = "B" -> "b" [] OTHER -> ch

\* one pattern character against one character of the text, under re.IGNORECASE:
\* '.' is the regular expression for any character
PatternChar(p, ch) == p = "." \/ Lower(p) = Lower(ch)

\* re.search(pat, s): the pattern matches somewhere in s
re_search(pat, s) ==
    \E i \in 0..(Len(s) - Len(pat)) : \A j \in 1..Len(pat) : PatternChar(pat[j], s[i + j])

\* Series.str.contains(pat, na=False, case=False), regex=True by default
str_contains(v, pat) == v.k = "str" /\ re_search(pat, v.s)

\* the mask of lines 119-132 on row r, under the widget values wv
Mask(r, wv) ==
    /\ isin(r["businessMiddleCodeName"], wv.cats)
    /\ between(r["monthlyRent"], wv.range["rent"][1], wv.range["rent"][2])
    /\ between(r["deposit"], wv.range["depo"][1], wv.range["depo"][2])
    /\ between(r["premium"], wv.range["prem"][1], wv.range["prem"][2])
    /\ between(r["size"], wv.range["size_sl"][1], wv.range["size_sl"][2])
    /\ at_least(r["viewCount"], wv.view)
    /\ at_least(r["favoriteCount"], wv.fav)
    /\ (wv.subway # <<>> => str_contains(r["nearSubwayStation"], wv.subway))
    /\ (wv.title # <<>> => str_contains(r["title"], wv.title))

\* the search branches read their column only when the search text is not empty
MaskRaises(t, wv) ==
    \/ wv.subway # <<>> /\ "nearSubwayStation" \notin t.cols
    \/ wv.title # <<>> /\ "title" \notin t.cols

RECURSIVE Select(_, _, _)
\* df[mask]: the positions from i on whose row passes the mask, in table order
Select(t, wv, i) ==
    IF i > Len(t.rows) THEN <<>>
    ELSE IF Mask(t.rows[i], wv) THEN <<i>> \o Select(t, wv, i + 1)
    ELSE Select(t, wv, i + 1)

apply_mask(t, wv) == Select(t, wv, 1)

---------------------------------------------------------------------------
(* main: the KPI section *)

Stats == {"count", "avgRent", "avgDeposit", "avgTotalCost", "avgSize",
          "medianRent", "avgPremium", "avgFee", "sumViews", "sumFavorites"}

\* the numbers of column col in the rows at positions f, missing cells left out
Column(t, f, col) ==
    LET keep == SelectSeq(f, LAMBDA i : ~isna(t.rows[i][col]))
    IN [j \in 1..Len(keep) |-> t.rows[keep[j]][col].n]

\* Series.mean(): the float num/den, or NaN over no number
mean(q) == IF Len(q) = 0 THEN [nan |-> TRUE, num |-> 0, den |-> 1]
           ELSE [nan |-> FALSE, num |-> SumSeq(q), den |-> 2 * Len(q)]

\* the k-th smallest number of q
Kth(q, k) == CHOOSE x \in {q[j] : j \in 1..Len(q)} :
                /\ Cardinality({j \in 1..Len(q) : q[j] < x}) < k
                /\ Cardinality({j \in 1..Len(q) : q[j] <= x}) >= k

\* Series.median()
median(q) == IF Len(q) = 0 THEN [nan |-> TRUE, num |-> 0, den |-> 1]
             ELSE IF Len(q) % 2 = 1
             THEN [nan |-> FALSE, num |-> Kth(q, (Len(q) + 1) \div 2), den |-> 2]
             ELSE [nan |-> FALSE,
                   num |-> Kth(q, Len(q) \div 2) + Kth(q, Len(q) \div 2 + 1), den |-> 4]

\* Series.sum(): 0 over no number
sum(q) == [nan |-> FALSE, num |-> SumSeq(q), den |-> 2]

Dash == [k |-> "-", n |-> 0]

\* display_val(val) with is_money left at True, as every call leaves it
display_val(val, won) ==
    IF val.nan THEN Dash
    ELSE IF won THEN [k |-> "won", n |-> Trunc(val.num * 10000, val.den)]
    ELSE [k |-> "manwon", n |-> Trunc(val.num, val.den)]

\* the float a/b (b > 0) in tenths, rounded half to even as '.1f' prints it
Tenths(a, b) ==
    LET q == (10 * a) \div b
        r == (10 * a) % b
    IN IF 2 * r < b THEN q
       ELSE IF 2 * r > b THEN q + 1
       ELSE IF q % 2 = 0 THEN q ELSE q + 1

\* size_label: f"{avg_size/3.3058:.1f}평" or f"{avg_size:.1f}m2"
size_label(val, pyeong) ==
    IF val.nan THEN [k |-> (IF pyeong THEN "nan pyeong" ELSE "nan m2"), n |-> 0]
    ELSE IF pyeong THEN [k |-> "pyeong", n |-> Tenths(val.num * 10000, val.den * PyeongE4)]
    ELSE [k |-> "m2", n |-> Tenths(val.num, val.den)]

count_label(val, unit) == [k |-> unit, n |-> Trunc(val.num, val.den)]

\* the ten st.metric calls of lines 147-161
Metrics(t, f, wv) ==
    [s \in Stats |->
       CASE s = "count" -> [k |-> "rows", n |-> Len(f)]
         [] s = "avgRent" -> display_val(mean(Column(t, f, "monthlyRent")), wv.won)
         [] s = "avgDeposit" -> display_val(mean(Column(t, f, "deposit")), wv.won)
         [] s = "avgTotalCost" -> display_val(mean(Column(t, f, "total_monthly_cost")), wv.won)
         [] s = "avgSize" -> size_label(mean(Column(t, f, "size")), wv.pyeong)
         [] s = "medianRent" -> display_val(median(Column(t, f, "monthlyRent")), wv.won)
         [] s = "avgPremium" -> display_val(mean(Column(t, f, "premium")), wv.won)
         [] s = "avgFee" -> display_val(mean(Column(t, f, "maintenanceFee")), wv.won)
         [] s = "sumViews" -> count_label(sum(Column(t, f, "viewCount")), "views")
         [] s = "sumFavorites" -> count_label(sum(Column(t, f, "favoriteCount")), "favorites")]

NoKpi == [metrics |-> <<>>, warning |-> FALSE]

\* if not filtered_df.empty: the metrics; else: st.warning
\* (the metrics computed whatever the number of rows)
KpiAlways(t, f, wv) == [metrics |-> Metrics(t, f, wv), warning |-> FALSE]
KpiSection(t, f, wv) ==
    IF f # <<>> THEN [metrics |-> Metrics(t, f, wv), warning |-> FALSE]
    ELSE [metrics |-> <<>>, warning |-> TRUE]

\* the columns the detail list reads of each row it shows (lines 219-248)
ListCols == {"businessMiddleCodeName", "title", "previewPhotoUrl", "nearSubwayStation",
             "floor", "groundFloor", "editedDateUtc", "edited_kst"}

ListRaises(t, f) == f # <<>> /\ ~(ListCols \subseteq t.cols)

---------------------------------------------------------------------------
(* main, as one run of the script *)

\* One run of main with the cache c, the files f and the widget session state wv:
\* how it ends and what it leaves.
Main(c, f, wv) ==
    LET ld == CachedLoad(c, f)
        t == ld.table
        wr == IF wv.set THEN wv ELSE Defaults(t)
        fl == apply_mask(t, wr)
        stop(how) == [pc |-> how, cache |-> ld.cache, built |-> ld.built, df |-> t,
                      w |-> wv, filtered |-> <<>>, kpi |-> NoKpi]
    IN IF ld.raised THEN stop("raised")
       ELSE IF t.rows = <<>> \/ t.cols = {} THEN stop("nodata")
       ELSE IF SidebarRaises(t) THEN stop("raised")
       ELSE IF MaskRaises(t, wr) THEN stop("raised")
       ELSE IF ListRaises(t, fl)
       THEN [pc |-> "raised", cache |-> ld.cache, built |-> ld.built, df |-> t,
             w |-> wr, filtered |-> fl, kpi |-> KpiSection(t, fl, wr)]
       ELSE [pc |-> "shown", cache |-> ld.cache, built |-> ld.built, df |-> t,
             w |-> wr, filtered |-> fl, kpi |-> KpiSection(t, fl, wr)]

---------------------------------------------------------------------------
(* The source files and the texts the behaviours draw from *)

AllCols == {"businessMiddleCodeName", "title", "nearSubwayStation", "previewPhotoUrl",
            "editedDateUtc", "monthlyRent", "deposit", "premium", "maintenanceFee",
            "size", "floor", "groundFloor", "viewCount", "favoriteCount"}

\* one JSON record with every field
Rec(cat, title, subway, edited, rent, dep, prem, fee, size, view, fav) ==
    [c \in AllCols |->
       CASE c = "businessMiddleCodeName" -> cat
         [] c = "title" -> title
         [] c = "nearSubwayStation" -> subway
         [] c = "previewPhotoUrl" -> Str(<<"u">>)
         [] c = "editedDateUtc" -> edited
         [] c = "monthlyRent" -> rent
         [] c = "deposit" -> dep
         [] c = "premium" -> prem
         [] c = "maintenanceFee" -> fee
         [] c = "size" -> size
         [] c = "floor" -> Num(2)
         [] c = "groundFloor" -> Num(4)
         [] c = "viewCount" -> view
         [] c = "favoriteCount" -> fav]

Without(r, gone) == [c \in (DOMAIN r) \ gone |-> r[c]]

\* The listings of the filter sessions: a plain one, one with a fractional
\* greatest rent (2.5), one per range column with that value missing, one with a
\* negative fractional premium (-1.5), one without category, title and counts.
Listings ==
    { Rec(Str(<<"A">>), Str(<<"a", "b">>), Str(<<"a">>), IsoUtc(0),
          Num(2), Num(2), Num(2), Num(2), Num(2), Num(2), Num(2)),
      Rec(Str(<<"B">>), Str(<<"A", ".">>), Str(<<"b">>), IsoUtc(3),
          Num(5), Num(4), Num(4), RawNull, Num(4), Num(4), Num(2)),
      Rec(Str(<<"A">>), Str(<<"b">>), RawNull, IsoUtc(1),
          Num(4), RawNull, Num(2), Num(2), Num(3), Num(0), Num(0)),
      Rec(Str(<<"B">>), Str(<<"B">>), Str(<<"a", "b">>), IsoUtc(2),
          Num(2), Num(2), Num(-3), Num(1), RawNull, Num(2), Num(4)),
      Rec(RawNull, RawNull, Str(<<"a">>), RawNull,
          RawNull, Num(4), RawNull, RawNull, Num(4), RawNull, RawNull) }

\* The records of the loader's behaviours: a plain one, one whose numbers are
\* null, unparseable or spelled as text, one without the key monthlyRent, one
\* with no key at all.
LoadRecs ==
    { Rec(Str(<<"A">>), Str(<<"a">>), Str(<<"a">>), IsoUtc(0),
          Num(2), Num(2), Num(2), Num(3), Num(4), Num(2), Num(2)),
      Rec(Str(<<"B">>), Str(<<"b">>), Str(<<"b">>), Str(<<"x">>),
          Str(<<"x">>), Num(4), Num(2), RawNull, NumStr(5), Num(4), NumStr(2)),
      Without(Rec(Str(<<"A">>), Str(<<"b">>), Str(<<"b">>), IsoUtc(1),
                  Num(2), Num(2), Num(2), Num(2), Num(2), Num(2), Num(2)),
              {"monthlyRent"}),
      <<>> }

RECURSIVE SeqsUpTo(_, _)
\* the sequences over S of length n at most
SeqsUpTo(S, n) ==
    IF n = 0 THEN {<<>>}
    ELSE LET shorter == SeqsUpTo(S, n - 1)
         IN shorter \cup {Append(q, x) : q \in shorter, x \in S}

\* a JSON array of records, and a JSON object that is one record
ArrayFile(recs) == [exists |-> TRUE, isDict |-> FALSE, recs |-> recs]
ObjectFile(rec) == [exists |-> TRUE, isDict |-> TRUE, recs |-> <<rec>>]

SessionFiles == {ArrayFile(q) : q \in SeqsUpTo(Listings, MaxRows)} \cup {Absent}

LoadFiles == {ArrayFile(q) : q \in SeqsUpTo(LoadRecs, MaxRows)}
                \cup {ObjectFile(r) : r \in LoadRecs} \cup {Absent}

\* what nemo/sample_data.json holds when it exists
NemoFile == ArrayFile(<<CHOOSE r \in LoadRecs : DOMAIN r = AllCols /\ r["monthlyRent"].k = "num">>)

\* the texts typed into the two search boxes
SearchTexts == {<<"a">>, <<".">>}

---------------------------------------------------------------------------
(* Actions *)

NoCache == [has |-> FALSE, key |-> <<>>, table |-> EmptyTable]

InitRest ==
    /\ cache = NoCache
    /\ pc = "start"
    /\ df = EmptyTable
    /\ w = Unset
    /\ filtered = <<>>
    /\ kpi = NoKpi
    /\ steps = 0
    /\ edits = 0
    /\ first = Absent
    /\ fresh = TRUE

\* a session over a source file that stays as it is
Init ==
    /\ fs \in {[root |-> f, nemo |-> Absent] : f \in SessionFiles}
    /\ InitRest

\* the loader over source files that change
InitLoad ==
    /\ fs \in {[root |-> f, nemo |-> g] : f \in LoadFiles, g \in {Absent, NemoFile}}
    /\ InitRest

\* The state a run r of main leaves; n is 1 when a user interaction started it.
Ran(r, n) ==
    /\ pc' = r.pc
    /\ cache' = r.cache
    /\ df' = r.df
    /\ w' = r.w
    /\ filtered' = r.filtered
    /\ kpi' = r.kpi
    /\ first' = IF r.built /\ ~cache.has THEN FindFile(fs) ELSE first
    /\ fresh' = TRUE
    /\ steps' = steps + n
    /\ UNCHANGED <<fs, edits>>

\* the page is opened: the script runs for the first time
Open ==
    /\ pc = "start"
    /\ Ran(Main(cache, fs, w), 0)

\* the page is loaded again: a new session, the script runs with fresh widgets
Reload ==
    /\ pc # "start"
    /\ Ran(Main(cache, fs, Unset), 0)

\* the button of the no-data page: st.rerun()
ResetButton ==
    /\ pc = "nodata"
    /\ Ran(Main(cache, fs, w), 0)

\* a widget takes the value that makes the session state wv, and the script reruns
Interact(wv) ==
    /\ pc = "shown"
    /\ steps < MaxSteps
    /\ wv # w
    /\ Ran(Main(cache, fs, wv), 1)

\* the integers a range slider over column col is dragged to
Picks(t, col) ==
    {x \in min_v(t, col)..max_v(t, col) : x <= min_v(t, col) + MaxPick}
        \cup {max_v(t, col)}

SetCats ==
    /\ pc = "shown"
    /\ \E sel \in SUBSET all_cats(df) : Interact([w EXCEPT !.cats = sel])

SetRange ==
    /\ pc = "shown"
    /\ \E key \in RangeKeys : \E lo, hi \in Picks(df, RangeCol(key)) :
        /\ lo <= hi
        /\ Interact([w EXCEPT !.range[key] = <<lo, hi>>])

SetView ==
    /\ pc = "shown"
    /\ \E v \in 0..max_count(df, "viewCount") : Interact([w EXCEPT !.view = v])

SetFav ==
    /\ pc = "shown"
    /\ \E v \in 0..max_count(df, "favoriteCount") : Interact([w EXCEPT !.fav = v])

SetSubway ==
    /\ pc = "shown"
    /\ \E t \in SearchTexts \cup {<<>>} : Interact([w EXCEPT !.subway = t])

SetTitle ==
    /\ pc = "shown"
    /\ \E t \in SearchTexts \cup {<<>>} : Interact([w EXCEPT !.title = t])

ToggleWon ==
    /\ pc = "shown"
    /\ Interact([w EXCEPT !.won = ~w.won])

TogglePyeong ==
    /\ pc = "shown"
    /\ Interact([w EXCEPT !.pyeong = ~w.pyeong])

\* The source file at the first candidate path is modified, outside the program.
Edited(f) ==
    /\ edits < MaxEdits
    /\ f # fs.root
    /\ fs' = [fs EXCEPT !.root = f]
    /\ edits' = edits + 1
    /\ fresh' = FALSE
    /\ UNCHANGED <<cache, pc, df, w, filtered, kpi, steps, first>>

AppendRecord ==
    /\ fs.root.exists /\ ~fs.root.isDict /\ Len(fs.root.recs) < MaxRows
    /\ \E r \in LoadRecs : Edited(ArrayFile(Append(fs.root.recs, r)))

DropRecord ==
    /\ fs.root.exists /\ ~fs.root.isDict /\ fs.root.recs # <<>>
    /\ Edited(ArrayFile(SubSeq(fs.root.recs, 1, Len(fs.root.recs) - 1)))

ReplaceRecord ==
    /\ fs.root.exists /\ fs.root.recs # <<>>
    /\ \E r \in LoadRecs :
         Edited([fs.root EXCEPT !.recs = [@ EXCEPT ![Len(@)] = r]])

DeleteFile == fs.root.exists /\ Edited(Absent)

CreateFile == ~fs.root.exists /\ \E r \in LoadRecs : Edited(ObjectFile(r))

Next ==
    \/ Open
    \/ ResetButton
    \/ SetCats
    \/ SetRange
    \/ SetView
    \/ SetFav
    \/ SetSubway
    \/ SetTitle
    \/ ToggleWon
    \/ TogglePyeong

Spec == Init /\ [][Next]_vars

NextLoad ==
    \/ Open
    \/ Reload
    \/ ResetButton
    \/ AppendRecord
    \/ DropRecord
    \/ ReplaceRecord
    \/ DeleteFile
    \/ CreateFile

SpecLoad == InitLoad /\ [][NextLoad]_vars

---------------------------------------------------------------------------
(* Properties *)

Positions(q) == {q[k] : k \in 1..Len(q)}

Increasing(q) == \A k \in 1..(Len(q) - 1) : q[k] < q[k + 1]

\* the text s contains the text pat, letter case aside
Contains(pat, s) ==
    \E i \in 0..(Len(s) - Len(pat)) : \A j \in 1..Len(pat) : Lower(pat[j]) = Lower(s[i + j])

InRange(v, range) == v.k = "num" /\ 2 * range[1] <= v.n /\ v.n <= 2 * range[2]

\* the filter contract on one row: every predicate at once
Satisfies(r, wv) ==
    /\ r["businessMiddleCodeName"].k = "str" /\ r["businessMiddleCodeName"].s \in wv.cats
    /\ \A key \in RangeKeys : InRange(r[RangeCol(key)], wv.range[key])
    /\ r["viewCount"].k = "num" /\ r["viewCount"].n >= 2 * wv.view
    /\ r["favoriteCount"].k = "num" /\ r["favoriteCount"].n >= 2 * wv.fav
    /\ (wv.subway = <<>>
          \/ (r["nearSubwayStation"].k = "str" /\ Contains(wv.subway, r["nearSubwayStation"].s)))
    /\ (wv.title = <<>> \/ (r["title"].k = "str" /\ Contains(wv.title, r["title"].s)))

\* C1: the filtered result holds exactly the rows that satisfy every predicate of
\* the filter specification (category, four inclusive ranges, two thresholds, two
\* substring searches that an empty text switches off), in table order.
C1_FilterExact ==
    pc = "shown" =>
        /\ Increasing(filtered)
        /\ Positions(filtered) = {i \in 1..Len(df.rows) : Satisfies(df.rows[i], w)}

\* C2: a row whose monthlyRent, deposit, premium or size is missing is never in
\* the filtered result, whatever the bounds of that column's range.
C2_MissingExcluded ==
    \A i \in Positions(filtered) : \A key \in RangeKeys : ~isna(df.rows[i][RangeCol(key)])

\* C2's case: a row that is out only because its value in a range column is
\* missing (with any number of the range in its place it would be in).
C2_Witness ==
    /\ pc = "shown"
    /\ \E i \in 1..Len(df.rows) : \E key \in RangeKeys :
          /\ isna(df.rows[i][RangeCol(key)])
          /\ i \notin Positions(filtered)
          /\ Satisfies([df.rows[i] EXCEPT ![RangeCol(key)] = Num(2 * w.range[key][1])], w)

\* C3: with no category selected the filtered result has no row, whatever the
\* other widgets say.
C3_EmptySelection == (pc = "shown" /\ w.cats = {}) => filtered = <<>>

\* C3's case: every category deselected over a table with a row that passes
\* every other predicate.
C3_Witness ==
    /\ pc = "shown"
    /\ w.cats = {}
    /\ filtered = <<>>
    /\ \E i \in 1..Len(df.rows) : Satisfies(df.rows[i], [w EXCEPT !.cats = all_cats(df)])

\* the bounds a range is widened to: the slider's, and one beyond each end
WiderBounds(t, col) == Picks(t, col) \cup {min_v(t, col) - 1, max_v(t, col) + 1}

\* the filter specifications that differ from wv in one range only, which has a
\* lower min, a higher max or both
Widenings(t, wv) ==
    UNION {{[wv EXCEPT !.range[key] = <<lo, hi>>] :
               lo \in {x \in WiderBounds(t, RangeCol(key)) : x <= wv.range[key][1]},
               hi \in {x \in WiderBounds(t, RangeCol(key)) : x >= wv.range[key][2]}} :
           key \in RangeKeys} \ {wv}

\* C4: widening the bounds of one range predicate removes no row of the result.
C4_Monotone ==
    pc = "shown" =>
        \A wider \in Widenings(df, w) :
            Positions(filtered) \subseteq Positions(apply_mask(df, wider))

\* C4's case: a narrowed range with a row in the result, and a widening of it
\* that brings a row in.
C4_Witness ==
    /\ pc = "shown"
    /\ filtered # <<>>
    /\ w # Defaults(df)
    /\ \E wider \in Widenings(df, w) :
          Positions(apply_mask(df, wider)) # Positions(filtered)

ZeroIfMissing(v) == IF v.k = "num" THEN v.n ELSE 0

\* C5: after normalization every row's total_monthly_cost is its monthlyRent (0
\* when missing) plus its maintenanceFee (0 when missing); it is never missing.
C5_TotalCost ==
    cache.has =>
        \A i \in 1..Len(cache.table.rows) :
            LET r == cache.table.rows[i]
            IN r["total_monthly_cost"] =
                   Num(ZeroIfMissing(r["monthlyRent"]) + ZeroIfMissing(r["maintenanceFee"]))

\* C5's case: a normalized row with both values missing, and one with both there.
C5_Witness ==
    /\ cache.has
    /\ \E i \in 1..Len(cache.table.rows) :
          /\ isna(cache.table.rows[i]["monthlyRent"])
          /\ isna(cache.table.rows[i]["maintenanceFee"])
          /\ cache.table.rows[i]["total_monthly_cost"] = Num(0)
    /\ \E i \in 1..Len(cache.table.rows) :
          /\ cache.table.rows[i]["monthlyRent"].k = "num"
          /\ cache.table.rows[i]["maintenanceFee"].k = "num"

\* the source file the loader finds, if any, holds no record
NoRecords(f) == ~FindFile(f).exists \/ FindFile(f).recs = <<>>

\* C6: when no candidate path exists, and when the file found parses to zero
\* rows, the loader returns an empty table without raising and main reports
\* "no data".  (Stated of the runs over a source that was never modified.)
C6_NoDataNotError == (pc # "start" /\ edits = 0 /\ NoRecords(fs)) => pc = "nodata"

\* the table built from the content c of the source file
BuildOf(c) == load_and_preprocess_data([root |-> c, nemo |-> Absent])

\* C7, as claimed: a load returns the table built from what the source file holds
\* at that load: the new content after a change, the same table without one.
\* (Stated of the contents the loader can build a table from.)
C7_CacheFollowsContent ==
    (pc \in {"shown", "nodata"} /\ fresh /\ ~BuildOf(FindFile(fs)).raised) =>
        df = BuildOf(FindFile(fs)).table

\* C7, amended: a change of the source file never invalidates the cached table.
\* Once a load has returned, every later load returns the table built from what
\* the file held at that first load.
C7_CacheKeepsFirstBuild ==
    /\ cache.has => (~BuildOf(first).raised /\ cache.table = BuildOf(first).table)
    /\ (pc \in {"shown", "nodata"} /\ cache.has) => df = BuildOf(first).table

\* C7's case: a load that returned after the content changed, with the table of
\* the old content and not the one the new content builds.
C7_Witness ==
    /\ pc \in {"shown", "nodata"}
    /\ fresh
    /\ edits > 0
    /\ FindFile(fs) # first
    /\ ~BuildOf(FindFile(fs)).raised
    /\ BuildOf(FindFile(fs)).table # df
    /\ df = BuildOf(first).table

\* a statistic with no value on the page: not rendered, or rendered as "-"
Unavailable(k, s) == s \notin DOMAIN k.metrics \/ k.metrics[s] = Dash

SourceCols == {"monthlyRent", "maintenanceFee", "size"}

\* the records of the source file that the loader finds
Records(f) == FindFile(f).recs

\* C9: normalizing a non-empty table that lacks monthlyRent, maintenanceFee or
\* size in every record completes without raising, with both derived fields.
\* (Stated of the runs over a source that was never modified.)
C9_AbsentColumnTolerated ==
    (/\ pc # "start"
     /\ edits = 0
     /\ FindFile(fs).exists
     /\ Records(fs) # <<>>
     /\ \A i \in 1..Len(Records(fs)) : DOMAIN Records(fs)[i] # {}
     /\ \E c \in SourceCols : \A i \in 1..Len(Records(fs)) : c \notin DOMAIN Records(fs)[i])
        => (cache.has /\ Derived \subseteq cache.table.cols)

\* a row with every value the filter reads
Complete(r) ==
    /\ r["businessMiddleCodeName"].k = "str"
    /\ \A key \in RangeKeys : r[RangeCol(key)].k = "num"
    /\ r["viewCount"].k = "num"
    /\ r["favoriteCount"].k = "num"

\* C10: with every widget at its initial default, every row that has all the
\* values the filter reads is in the filtered result.
C10_DefaultsKeepComplete ==
    (pc = "shown" /\ w = Defaults(df)) =>
        \A i \in 1..Len(df.rows) : Complete(df.rows[i]) => i \in Positions(filtered)

====
